---- MODULE Spec2Model ----
(***************************************************************************)
(* A model of the DataLab simple client: RemoteClient (cdl_client/remote.py)*)
(* and the pass-through proxy it inherits (cdlclient/baseproxy.py).         *)
(*                                                                          *)
(* Python values are tagged records (PyNone, PyInt, PyStr, ...); a Python   *)
(* str whose characters matter (a port number read from the environment or  *)
(* the configuration file) is a sequence of one-character strings.          *)
(* The outside world (the configuration file DataLab writes, the XML-RPC    *)
(* server) is read afresh at every connection attempt and every remote      *)
(* call: what is read is an input of the step that reads it.                *)
(***************************************************************************)
EXTENDS Integers, Sequences, FiniteSets, TLC

VARIABLES
    environ,   \* os.environ.get("CDL_XMLRPCPORT"): PyNone or a PyStr
    port,      \* self.port
    cdl,       \* self._cdl
    pc,        \* "idle", or the place inside connect(): "try" | "sleep"
    inv,       \* the invocation in progress or last made: [op, args]
    loc,       \* connect()'s locals: port, timeout, retries, _index
    hist,      \* what the invocation has done so far (counters, last reads)
    lastcall,  \* the last remote request the invocation has issued
    result,    \* how the invocation ended: a return value or an exception
    old,       \* self.port and self._cdl when the invocation started
    held,      \* the name bound in the compute function __getattr__ returned
    npy        \* the array codec's state (used by SpecArray only)

vars == <<environ, port, cdl, pc, inv, loc, hist, lastcall, result, old, held, npy>>

---------------------------------------------------------------------------
(* Bounds of the model. *)

MaxRetries == 2      \* explicit `retries` arguments range over 0..MaxRetries
MaxTimeout == 1      \* explicit `timeout` arguments range over -1..MaxTimeout
MaxSalt == 1         \* argument vectors of the control operations: 0..MaxSalt
MaxLen == 2          \* the length of each array axis ranges over 0..MaxLen
MaxSeed == 2         \* element patterns of the arrays: 0..MaxSeed

(* Program constants. *)

DefaultTimeout == 5
DefaultRetries == 10

---------------------------------------------------------------------------
(* Python values. *)

PyNone == [t |-> "NoneType"]
PyInt(n) == [t |-> "int", i |-> n]
PyStr(s) == [t |-> "str", s |-> s]
PyBool(b) == [t |-> "bool", b |-> b]

Return(v) == [kind |-> "return", val |-> v, exc |-> "", msg |-> ""]
Raise(e, m) == [kind |-> "raise", val |-> PyNone, exc |-> e, msg |-> m]
Pending == [kind |-> "pending", val |-> PyNone, exc |-> "", msg |-> ""]

(* Rational numbers <<n, d>> with d > 0, in lowest terms: timeout / retries *)
(* is Python's true division.                                               *)

RECURSIVE Gcd(_, _)
Gcd(a, b) == IF b = 0 THEN a ELSE Gcd(b, a % b)

Abs(n) == IF n < 0 THEN -n ELSE n

Frac(n, d) ==
    LET g == Gcd(Abs(n), d)
    IN  IF g = 0 THEN <<0, 1>> ELSE <<n \div g, d \div g>>

FracAdd(a, b) == Frac(a[1] * b[2] + b[1] * a[2], a[2] * b[2])
---------------------------------------------------------------------------
(* int(str), as get_xmlrpcport_from_env applies it.                         *)

Digits == <<"0", "1", "2", "3", "4", "5", "6", "7", "8", "9">>
IsDigit(c) == \E k \in 1..10 : Digits[k] = c
DigitVal(c) == (CHOOSE k \in 1..10 : Digits[k] = c) - 1

RECURSIVE LStrip(_)
LStrip(s) == IF s # <<>> /\ Head(s) = " " THEN LStrip(Tail(s)) ELSE s

RECURSIVE RStrip(_)
RStrip(s) ==
    IF s # <<>> /\ s[Len(s)] = " " THEN RStrip(SubSeq(s, 1, Len(s) - 1)) ELSE s

Strip(s) == RStrip(LStrip(s))

(* Digits, with single underscores allowed between two digits. *)
ValidBody(b) ==
    /\ Len(b) > 0
    /\ \A k \in 1..Len(b) :
          \/ IsDigit(b[k])
          \/ /\ b[k] = "_"
             /\ k > 1
             /\ k < Len(b)
             /\ IsDigit(b[k - 1])
             /\ IsDigit(b[k + 1])

RECURSIVE BodyVal(_, _)
BodyVal(b, acc) ==
    IF b = <<>> THEN acc
    ELSE IF Head(b) = "_" THEN BodyVal(Tail(b), acc)
    ELSE BodyVal(Tail(b), 10 * acc + DigitVal(Head(b)))

(* int(s): [ok |-> TRUE, val |-> n], or ok = FALSE for a ValueError. *)
int_str(s) ==
    LET st == Strip(s)
        signed == st # <<>> /\ st[1] \in {"+", "-"}
        body == IF signed THEN Tail(st) ELSE st
        mag == BodyVal(body, 0)
    IN  IF ValidBody(body)
        THEN [ok |-> TRUE, val |-> IF signed /\ st[1] = "-" THEN -mag ELSE mag]
        ELSE [ok |-> FALSE, val |-> 0]

(* str(n) of an int. *)
RECURSIVE NatToStr(_)
NatToStr(n) ==
    IF n < 10 THEN <<Digits[n + 1]>>
    ELSE NatToStr(n \div 10) \o <<Digits[(n % 10) + 1]>>

IntToStr(n) == IF n < 0 THEN <<"-">> \o NatToStr(-n) ELSE NatToStr(n)

(* f"{port}" *)
FormatValue(v) ==
    CASE v.t = "int" -> IntToStr(v.i)
      [] v.t = "str" -> v.s
      [] OTHER -> <<"N", "o", "n", "e">>

---------------------------------------------------------------------------
(* The environment variable, the configuration file, the server. *)

EnvTexts == {<<"x">>, <<" ", "9">>}
EnvValues == {PyNone} \cup {PyStr(s) : s \in EnvTexts}

(* int(os.environ.get(XMLRPCPORT_ENV)), None on TypeError or ValueError. *)
get_xmlrpcport_from_env(env) ==
    IF env = PyNone THEN PyNone
    ELSE IF int_str(env.s).ok THEN PyInt(int_str(env.s).val) ELSE PyNone

(* What reading DataLab.ini finds: no [main] section (or no file at all,   *)
(* which ini.read() passes over), a [main] section without the option, the *)
(* option, or a file that does not parse.                                   *)
NoEntryKinds == {"nosection", "nooption"}
CfgTexts == {<<"7">>}
CfgStates ==
    {[kind |-> k, value |-> <<>>] : k \in NoEntryKinds \cup {"malformed"}}
        \cup {[kind |-> "entry", value |-> s] : s \in CfgTexts}
NotRead == [kind |-> "notread", value |-> <<>>]

NotYetExecuted == "DataLab has not yet been executed"
NotRunning == "DataLab is currently not running"
UnableToConnect == "Unable to connect to DataLab"

get_cdl_xmlrpc_port_keyerror(cfg) ==
    CASE cfg.kind = "entry" -> Return(PyStr(cfg.value))
      [] cfg.kind = "malformed" -> Raise("ParsingError", "")
      [] cfg.kind = "nooption" -> Raise("NoOptionError", "")
      [] OTHER -> Raise("CDLConnectionError", NotYetExecuted)

(* ini.read(fname); ini.get("main", "rpc_server_port") *)
get_cdl_xmlrpc_port(cfg) ==
    CASE cfg.kind = "entry" -> Return(PyStr(cfg.value))
      [] cfg.kind = "malformed" -> Raise("ParsingError", "")
      [] OTHER -> Raise("CDLConnectionError", NotYetExecuted)

UriPrefix ==
    <<"h", "t", "t", "p", ":", "/", "/",
      "1", "2", "7", ".", "0", ".", "0", ".", "1", ":">>

ServerProxy(uri) == [t |-> "ServerProxy", uri |-> uri]
UriOf(p) == UriPrefix \o FormatValue(p)

(* What the server side answers a request with when it is made. *)
SrvStates == {"up", "down", "fault"}
RemoteResults == {PyStr(<<"r">>), PyBool(TRUE)}

NoCall == [method |-> "", args |-> <<>>, uri |-> <<>>]

(* One XML-RPC request through proxy p: nothing listens on the port (the    *)
(* connection is refused), or the request fails in another way (a Fault, a  *)
(* protocol error, a socket timeout), or the server's answer comes back.    *)
Request(p, srv, res) ==
    CASE srv = "down" -> Raise("ConnectionRefusedError", "")
      [] srv = "fault" -> Raise("Fault", "")
      [] OTHER -> Return(res)

---------------------------------------------------------------------------
(* The pass-through expression self._cdl.<method>(...): one request, or     *)
(* an AttributeError when self._cdl is None.                                *)

RemoteInvoke(c, method, args, srv, res) ==
    IF c = PyNone
    THEN [out |-> Raise("AttributeError", ""), calls |-> <<>>]
    ELSE [out |-> Request(c, srv, res),
          calls |-> <<[method |-> method, args |-> args, uri |-> c.uri]>>]

(* A method that ends without a return statement returns None. *)
Discard(r) ==
    [out |-> IF r.out.kind = "return" THEN Return(PyNone) ELSE r.out,
     calls |-> r.calls]

get_version(c, a, srv, res) == RemoteInvoke(c, "get_version", <<>>, srv, res)

---------------------------------------------------------------------------
(* RemoteClient.__connect_to_server and RemoteClient.connect *)

connect_to_server_cfg_first(p, env, cfg, srv, res, self) ==
    LET fromcfg == get_cdl_xmlrpc_port(cfg)
        fromenv == get_xmlrpcport_from_env(env)
        used == IF p # PyNone THEN p
                ELSE IF fromcfg.kind = "return" THEN fromcfg.val ELSE fromenv
        proxy == ServerProxy(UriOf(used))
        gv == get_version(proxy, <<>>, srv, res)
    IN  IF p = PyNone /\ fromcfg.kind = "raise" /\ fromenv = PyNone
        THEN [port |-> self.port, cdl |-> self.cdl, out |-> fromcfg,
              cfg |-> cfg, gvexc |-> "", ncalls |-> 0, nproxies |-> 0,
              call |-> NoCall]
        ELSE [port |-> used, cdl |-> proxy,
              out |-> IF gv.out.kind = "raise"
                         /\ gv.out.exc = "ConnectionRefusedError"
                      THEN Raise("CDLConnectionError", NotRunning)
                      ELSE IF gv.out.kind = "raise" THEN gv.out
                      ELSE Return(PyNone),
              cfg |-> IF p = PyNone THEN cfg ELSE NotRead,
              gvexc |-> gv.out.exc,
              ncalls |-> Len(gv.calls), nproxies |-> 1,
              call |-> gv.calls[1]]

connect_to_server_catch_all(p, env, cfg, srv, res, self) ==
    LET fromenv == IF p = PyNone THEN get_xmlrpcport_from_env(env) ELSE p
        needcfg == fromenv = PyNone
        fromcfg == get_cdl_xmlrpc_port(cfg)
        used == IF needcfg THEN fromcfg.val ELSE fromenv
        proxy == ServerProxy(UriOf(used))
        gv == get_version(proxy, <<>>, srv, res)
    IN  IF needcfg /\ fromcfg.kind = "raise"
        THEN [port |-> self.port, cdl |-> self.cdl, out |-> fromcfg,
              cfg |-> cfg, gvexc |-> "", ncalls |-> 0, nproxies |-> 0,
              call |-> NoCall]
        ELSE [port |-> used, cdl |-> proxy,
              out |-> IF gv.out.kind = "raise"
                      THEN Raise("CDLConnectionError", NotRunning)
                      ELSE Return(PyNone),
              cfg |-> IF needcfg THEN cfg ELSE NotRead,
              gvexc |-> gv.out.exc,
              ncalls |-> Len(gv.calls), nproxies |-> 1,
              call |-> gv.calls[1]]

(* self is [port, cdl]; the result carries the new self.port, self._cdl,    *)
(* the outcome, the configuration read (NotRead when the file was not       *)
(* consulted), the exception get_version() raised, and the request made.    *)
connect_to_server(p, env, cfg, srv, res, self) ==
    LET fromenv == IF p = PyNone THEN get_xmlrpcport_from_env(env) ELSE p
        needcfg == fromenv = PyNone
        fromcfg == get_cdl_xmlrpc_port(cfg)
        used == IF needcfg THEN fromcfg.val ELSE fromenv
        proxy == ServerProxy(UriOf(used))
        gv == get_version(proxy, <<>>, srv, res)
    IN  IF needcfg /\ fromcfg.kind = "raise"
        THEN [port |-> self.port, cdl |-> self.cdl, out |-> fromcfg,
              cfg |-> cfg, gvexc |-> "", ncalls |-> 0, nproxies |-> 0,
              call |-> NoCall]
        ELSE [port |-> used, cdl |-> proxy,
              out |-> IF gv.out.kind = "raise"
                         /\ gv.out.exc = "ConnectionRefusedError"
                      THEN Raise("CDLConnectionError", NotRunning)
                      ELSE IF gv.out.kind = "raise" THEN gv.out
                      ELSE Return(PyNone),
              cfg |-> IF needcfg THEN cfg ELSE NotRead,
              gvexc |-> gv.out.exc,
              ncalls |-> Len(gv.calls), nproxies |-> 1,
              call |-> gv.calls[1]]

(* What an invocation has done so far.  attempts, failed, sleeps: the turns *)
(* of connect()'s loop, those that raised CDLConnectionError, the sleeps;   *)
(* slept, lastsleep: the time slept in all and in the last sleep;           *)
(* ncalls, nproxies: requests made, ServerProxy objects created;            *)
(* cfg: what the last attempt read in DataLab.ini (NotRead: not consulted), *)
(* allmissing: the file held no entry at any attempt so far; lasterr: the message of the last CDLConnectionError      *)
(* caught; gvexc: what get_version() raised in the last attempt;            *)
(* srv, res: the server's state and answer at the last request;             *)
(* step: the step taken last.                                               *)
Hist0 ==
    [attempts |-> 0, failed |-> 0, sleeps |-> 0, slept |-> <<0, 1>>,
     lastsleep |-> <<0, 1>>, ncalls |-> 0, nproxies |-> 0, cfg |-> NotRead,
     allmissing |-> TRUE, cfgreads |-> 0, lasterr |-> "",
     gvexc |-> "", srv |-> "", res |-> PyNone, step |-> "call"]

Inv0 == [op |-> "", args |-> <<>>]
Version == PyStr(<<"1", ".", "0">>)

Loc0 == [port |-> PyNone, timeout |-> 0, retries |-> 0, index |-> 0]

PortArgs == {PyNone, PyStr(<<"8">>)}
TimeoutArgs == {PyNone} \cup {PyInt(n) : n \in -1..MaxTimeout}
RetriesArgs == {PyNone} \cup {PyInt(n) : n \in 0..MaxRetries}

retries_default_falsy(r) == IF r = PyNone \/ r = PyInt(0) THEN DefaultRetries ELSE r.i

(* timeout = 5.0 if timeout is None else timeout *)
timeout_default(t) == IF t = PyNone THEN DefaultTimeout ELSE t.i
(* retries = 10 if retries is None else retries *)
retries_default(r) == IF r = PyNone THEN DefaultRetries ELSE r.i

(* The two argument checks that open connect(). *)
connect_check(t, r) ==
    IF t < 0 THEN Raise("ValueError", "timeout must be >= 0.0")
    ELSE IF r < 1 THEN Raise("ValueError", "retries must be >= 1")
    ELSE Return(PyNone)

sleep_slice_floor(t, r) == Frac(t \div r, 1)

(* timeout / retries *)
sleep_slice(t, r) == Frac(t, r)

Begin(op, args) ==
    /\ pc = "idle"
    /\ inv' = [op |-> op, args |-> args]
    /\ old' = [port |-> port, cdl |-> cdl]
    /\ held' = PyNone

(* connect(port, timeout, retries): the defaults, the checks, and entry     *)
(* into the retry loop.                                                     *)
connect(p, t, r) ==
    LET timeout == timeout_default(t)
        retries == retries_default(r)
        chk == connect_check(timeout, retries)
    IN  /\ Begin("connect", <<p, t, r>>)
        /\ loc' = [port |-> p, timeout |-> timeout, retries |-> retries,
                   index |-> 0]
        /\ hist' = Hist0
        /\ lastcall' = NoCall
        /\ IF chk.kind = "raise"
           THEN /\ result' = chk
                /\ pc' = "done"
           ELSE /\ result' = Pending
                /\ pc' = "try"
        /\ UNCHANGED <<environ, port, cdl, npy>>

connect_attempt_nobreak(cfg, srv) ==
    LET a == connect_to_server(loc.port, environ, cfg, srv, Version,
                               [port |-> port, cdl |-> cdl])
    IN  /\ pc = "try"
        /\ port' = a.port
        /\ cdl' = a.cdl
        /\ hist' = [hist EXCEPT
                      !.attempts = @ + 1,
                      !.failed = @ + (IF a.out.exc = "CDLConnectionError"
                                      THEN 1 ELSE 0),
                      !.ncalls = @ + a.ncalls,
                      !.nproxies = @ + a.nproxies,
                      !.cfg = a.cfg,
                      !.allmissing = @ /\ cfg.kind \in NoEntryKinds,
                      !.cfgreads = @ + (IF a.cfg = NotRead THEN 0 ELSE 1),
                      !.lasterr = IF a.out.exc = "CDLConnectionError"
                                  THEN a.out.msg ELSE "",
                      !.gvexc = a.gvexc,
                      !.srv = IF a.ncalls > 0 THEN srv ELSE "",
                      !.res = IF a.ncalls > 0 THEN Version ELSE PyNone,
                      !.step = "attempt"]
        /\ lastcall' = IF a.ncalls > 0 THEN a.call ELSE lastcall
        /\ IF a.out.kind = "return" \/ a.out.exc = "CDLConnectionError"
           THEN /\ result' = Pending
                /\ pc' = "sleep"
           ELSE /\ result' = a.out
                /\ pc' = "done"
        /\ UNCHANGED <<environ, inv, loc, old, held, npy>>

(* One turn of the loop: self.__connect_to_server(port=port), then break,   *)
(* or the except clause, or the exception leaves connect().                 *)
connect_attempt(cfg, srv) ==
    LET a == connect_to_server(loc.port, environ, cfg, srv, Version,
                               [port |-> port, cdl |-> cdl])
    IN  /\ pc = "try"
        /\ port' = a.port
        /\ cdl' = a.cdl
        /\ hist' = [hist EXCEPT
                      !.attempts = @ + 1,
                      !.failed = @ + (IF a.out.exc = "CDLConnectionError"
                                      THEN 1 ELSE 0),
                      !.ncalls = @ + a.ncalls,
                      !.nproxies = @ + a.nproxies,
                      !.cfg = a.cfg,
                      !.allmissing = @ /\ cfg.kind \in NoEntryKinds,
                      !.cfgreads = @ + (IF a.cfg = NotRead THEN 0 ELSE 1),
                      !.lasterr = IF a.out.exc = "CDLConnectionError"
                                  THEN a.out.msg ELSE "",
                      !.gvexc = a.gvexc,
                      !.srv = IF a.ncalls > 0 THEN srv ELSE "",
                      !.res = IF a.ncalls > 0 THEN Version ELSE PyNone,
                      !.step = "attempt"]
        /\ lastcall' = IF a.ncalls > 0 THEN a.call ELSE lastcall
        /\ IF a.out.kind = "return"
           THEN /\ result' = Return(PyNone)
                /\ pc' = "done"
           ELSE IF a.out.exc = "CDLConnectionError"
           THEN /\ result' = Pending
                /\ pc' = "sleep"
           ELSE /\ result' = a.out
                /\ pc' = "done"
        /\ UNCHANGED <<environ, inv, loc, old, held, npy>>

connect_sleep_one_more ==
    LET d == sleep_slice(loc.timeout, loc.retries)
    IN  /\ pc = "sleep"
        /\ hist' = [hist EXCEPT !.sleeps = @ + 1,
                                !.slept = FracAdd(@, d),
                                !.lastsleep = d,
                                !.step = "sleep"]
        /\ loc' = [loc EXCEPT !.index = @ + 1]
        /\ IF loc.index + 1 <= loc.retries
           THEN /\ result' = Pending
                /\ pc' = "try"
           ELSE /\ result' = Raise("CDLConnectionError", UnableToConnect)
                /\ pc' = "done"
        /\ UNCHANGED <<environ, port, cdl, inv, old, lastcall, held, npy>>

(* time.sleep(timeout / retries), then the next turn, or the loop's else    *)
(* clause when range(retries) is used up.                                   *)
connect_sleep ==
    LET d == sleep_slice(loc.timeout, loc.retries)
    IN  /\ pc = "sleep"
        /\ hist' = [hist EXCEPT !.sleeps = @ + 1,
                                !.slept = FracAdd(@, d),
                                !.lastsleep = d,
                                !.step = "sleep"]
        /\ loc' = [loc EXCEPT !.index = @ + 1]
        /\ IF loc.index + 1 < loc.retries
           THEN /\ result' = Pending
                /\ pc' = "try"
           ELSE /\ result' = Raise("CDLConnectionError", UnableToConnect)
                /\ pc' = "done"
        /\ UNCHANGED <<environ, port, cdl, inv, old, lastcall, held, npy>>

(* The script sets or clears CDL_XMLRPCPORT between two calls. *)
setenv(v) ==
    /\ pc = "idle"
    /\ environ' = v
    /\ UNCHANGED <<port, cdl, pc, inv, loc, hist, lastcall, result, old, held, npy>>

(* self._cdl = None *)
disconnect ==
    /\ Begin("disconnect", <<>>)
    /\ cdl' = PyNone
    /\ hist' = Hist0
    /\ loc' = Loc0
    /\ lastcall' = NoCall
    /\ result' = Return(PyNone)
    /\ pc' = "done"
    /\ UNCHANGED <<environ, port, npy>>

(* The caller has the outcome and goes on: the finished invocation's record *)
(* is dropped, the object's fields stay.                                    *)
resume ==
    /\ pc = "done"
    /\ pc' = "idle"
    /\ inv' = Inv0
    /\ loc' = Loc0
    /\ hist' = Hist0
    /\ lastcall' = NoCall
    /\ result' = Pending
    /\ old' = [port |-> port, cdl |-> cdl]
    /\ UNCHANGED <<environ, port, cdl, held, npy>>

---------------------------------------------------------------------------
(* NumPy arrays and their .npy encoding (np.save / np.load with             *)
(* allow_pickle=False).  An array is its dtype, its shape, its memory       *)
(* layout ("C" or "F") and its elements listed in row-major index order.    *)

Dtypes == {"|u1", "<i2", ">i2", "<u2"}
ItemSize(dt) == IF dt = "|u1" THEN 1 ELSE 2
IsSigned(dt) == dt \in {"<i2", ">i2"}
IsBigEndian(dt) == dt = ">i2"

RECURSIVE Pow(_, _)
Pow(b, e) == IF e = 0 THEN 1 ELSE b * Pow(b, e - 1)

RECURSIVE Prod(_)
Prod(shape) == IF shape = <<>> THEN 1 ELSE Head(shape) * Prod(Tail(shape))

Reverse(s) == [k \in 1..Len(s) |-> s[Len(s) + 1 - k]]

(* Row-major position (from 0) of the element that sits at column-major     *)
(* position k (from 0), for an array of at most two axes.                   *)
RowMajorOf(k, shape) ==
    IF Len(shape) < 2 THEN k
    ELSE (k % shape[1]) * shape[2] + (k \div shape[1])

(* flags.c_contiguous / flags.f_contiguous *)
CContiguous(a) ==
    \/ a.order = "C"
    \/ Len(a.shape) < 2
    \/ Prod(a.shape) = 0
    \/ Cardinality({k \in 1..Len(a.shape) : a.shape[k] # 1}) <= 1
FContiguous(a) ==
    \/ a.order = "F"
    \/ Len(a.shape) < 2
    \/ Prod(a.shape) = 0
    \/ Cardinality({k \in 1..Len(a.shape) : a.shape[k] # 1}) <= 1

(* One element as ItemSize(dt) bytes, two's complement, in dt's byte order. *)
ElemBytes(v, dt) ==
    LET n == ItemSize(dt)
        u == v % Pow(256, n)
        le == [k \in 1..n |-> (u \div Pow(256, k - 1)) % 256]
    IN  IF IsBigEndian(dt) THEN Reverse(le) ELSE le

ElemOfBytes(b, dt) ==
    LET n == ItemSize(dt)
        le == IF IsBigEndian(dt) THEN Reverse(b) ELSE b
        u == IF n = 1 THEN le[1] ELSE le[1] + 256 * le[2]
    IN  IF IsSigned(dt) /\ u >= Pow(256, n) \div 2 THEN u - Pow(256, n) ELSE u

RECURSIVE Flatten(_)
Flatten(ss) == IF ss = <<>> THEN <<>> ELSE Head(ss) \o Flatten(Tail(ss))

(* numpy.lib.format.write_array: the header, then the elements' bytes, in   *)
(* column-major order when the array is Fortran-contiguous only.            *)
npy_write(a) ==
    LET fortran == FContiguous(a) /\ ~CContiguous(a)
        n == Prod(a.shape)
        seq == [k \in 1..n |->
                  IF fortran THEN a.data[RowMajorOf(k - 1, a.shape) + 1]
                  ELSE a.data[k]]
    IN  [magic |-> "\\x93NUMPY",
         header |-> [descr |-> a.dtype, fortran_order |-> fortran,
                     shape |-> a.shape],
         payload |-> Flatten([k \in 1..n |-> ElemBytes(seq[k], a.dtype)])]

(* numpy.lib.format.read_array *)
npy_read(f) ==
    LET dt == f.header.descr
        shape == f.header.shape
        n == Prod(shape)
        sz == ItemSize(dt)
        seq == [k \in 1..n |->
                  ElemOfBytes(SubSeq(f.payload, (k - 1) * sz + 1, k * sz), dt)]
        \* the inverse of RowMajorOf: where row-major element j sits in seq
        colpos(j) == CHOOSE k \in 0..(n - 1) : RowMajorOf(k, shape) = j
    IN  [t |-> "ndarray", dtype |-> dt, shape |-> shape,
         order |-> IF f.header.fortran_order THEN "F" ELSE "C",
         data |-> [j \in 1..n |->
                     IF f.header.fortran_order THEN seq[colpos(j - 1) + 1]
                     ELSE seq[j]]]

Binary(data) == [t |-> "Binary", data |-> data]

(* np.save(dbytes, data, allow_pickle=False); Binary(dbytes.getvalue()) *)
array_to_rpcbinary(data) == Binary(npy_write(data))

rpcbinary_to_array_native(binary) ==
    npy_read([binary.data EXCEPT !.header.descr =
                 IF @ = ">i2" THEN "<i2" ELSE @])

(* np.load(BytesIO(binary.data), allow_pickle=False) *)
rpcbinary_to_array(binary) == npy_read(binary.data)

(* The arrays of the model: every shape of at most two axes of length       *)
(* 0..MaxLen, every dtype, both layouts, elements drawn from the dtype's    *)
(* range (its extremes included) by a seed.                                 *)
Shapes ==
    {<<>>} \cup {<<n>> : n \in 0..MaxLen}
           \cup {<<n, m>> : n \in 0..MaxLen, m \in 0..MaxLen}

ElemPool(dt) ==
    CASE dt = "|u1" -> <<0, 1, 255, 128>>
      [] dt = "<u2" -> <<0, 258, 65535, 32768>>
      [] OTHER -> <<0, 258, -1, -32768, 32767>>

MakeArray(dt, shape, order, seed) ==
    [t |-> "ndarray", dtype |-> dt, shape |-> shape, order |-> order,
     data |-> [k \in 1..Prod(shape) |->
                 ElemPool(dt)[((seed + k) % Len(ElemPool(dt))) + 1]]]

Arrays ==
    {MakeArray(dt, sh, o, sd) :
        dt \in Dtypes, sh \in Shapes, o \in {"C", "F"}, sd \in 0..MaxSeed}

(* The arrays handed to add_signal and add_image. *)
SignalArrays == {MakeArray("|u1", <<2>>, "C", 0), MakeArray(">i2", <<2>>, "C", 1)}
ImageArrays == {MakeArray("<i2", <<2, 2>>, "F", 1), MakeArray("|u1", <<1, 2>>, "C", 2)}

SameArray(a, b) == a.dtype = b.dtype /\ a.shape = b.shape /\ a.data = b.data

---------------------------------------------------------------------------
(* The control operations: SimpleBaseProxy's pass-through methods, and      *)
(* RemoteClient's add_signal, add_image and calc.  Each takes self._cdl,    *)
(* its parameters a (the caller's arguments, defaults filled in) and what   *)
(* the server answers, and yields its outcome and the requests it made.     *)

close_application(c, a, srv, res) ==
    Discard(RemoteInvoke(c, "close_application", <<>>, srv, res))

switch_to_panel(c, a, srv, res) ==
    Discard(RemoteInvoke(c, "switch_to_panel", <<a[1]>>, srv, res))

reset_all(c, a, srv, res) ==
    Discard(RemoteInvoke(c, "reset_all", <<>>, srv, res))

save_to_h5_file(c, a, srv, res) ==
    Discard(RemoteInvoke(c, "save_to_h5_file", <<a[1]>>, srv, res))

open_h5_files(c, a, srv, res) ==
    Discard(RemoteInvoke(c, "open_h5_files", <<a[1], a[2], a[3]>>, srv, res))

import_h5_file(c, a, srv, res) ==
    Discard(RemoteInvoke(c, "import_h5_file", <<a[1], a[2]>>, srv, res))

open_object(c, a, srv, res) ==
    Discard(RemoteInvoke(c, "open_object", <<a[1]>>, srv, res))

get_sel_object_uuids(c, a, srv, res) ==
    RemoteInvoke(c, "get_sel_object_uuids", <<a[1]>>, srv, res)

select_objects_swapped(c, a, srv, res) ==
    Discard(RemoteInvoke(c, "select_objects", <<a[1], a[3], a[2]>>, srv, res))

select_objects(c, a, srv, res) ==
    Discard(RemoteInvoke(c, "select_objects", <<a[1], a[2], a[3]>>, srv, res))

select_groups(c, a, srv, res) ==
    Discard(RemoteInvoke(c, "select_groups", <<a[1], a[2]>>, srv, res))

delete_metadata(c, a, srv, res) ==
    Discard(RemoteInvoke(c, "delete_metadata", <<a[1]>>, srv, res))

get_object_titles(c, a, srv, res) ==
    RemoteInvoke(c, "get_object_titles", <<a[1]>>, srv, res)

get_object_uuids(c, a, srv, res) ==
    RemoteInvoke(c, "get_object_uuids", <<a[1]>>, srv, res)

add_label_with_title(c, a, srv, res) ==
    Discard(RemoteInvoke(c, "add_label_with_title", <<a[1], a[2]>>, srv, res))

add_signal(c, a, srv, res) ==
    LET xbinary == array_to_rpcbinary(a[2])
        ybinary == array_to_rpcbinary(a[3])
    IN  RemoteInvoke(c, "add_signal",
                     <<a[1], xbinary, ybinary, a[4], a[5], a[6], a[7]>>,
                     srv, res)

add_image(c, a, srv, res) ==
    LET zbinary == array_to_rpcbinary(a[2])
    IN  RemoteInvoke(c, "add_image",
                     <<a[1], zbinary, a[3], a[4], a[5], a[6], a[7], a[8]>>,
                     srv, res)

(* guidata DataSets: the class (module and name) and the items' values.     *)
(* JSONWriter's text is the items as a JSON object of integers.             *)
DataSet(module, cls, items) ==
    [t |-> "DataSet", module |-> module, cls |-> cls, items |-> items]

RECURSIVE JsonItems(_)
JsonItems(items) ==
    IF items = <<>> THEN <<>>
    ELSE <<"\"">> \o Head(items)[1] \o <<"\"", ":", " ">>
           \o IntToStr(Head(items)[2])
           \o (IF Len(items) > 1 THEN <<",", " ">> ELSE <<>>)
           \o JsonItems(Tail(items))

get_json(param) == <<"{">> \o JsonItems(param.items) \o <<"}">>

PyList(xs) == [t |-> "list", xs |-> xs]

dataset_to_json_class_first(param) ==
    PyList(<<PyStr(param.cls), PyStr(param.module), PyStr(get_json(param))>>)

(* [klass.__module__, klass.__name__, param_json] *)
dataset_to_json(param) ==
    PyList(<<PyStr(param.module), PyStr(param.cls), PyStr(get_json(param))>>)

calc(c, a, srv, res) ==
    IF a[2] = PyNone
    THEN RemoteInvoke(c, "calc", <<a[1]>>, srv, res)
    ELSE RemoteInvoke(c, "calc", <<a[1], dataset_to_json(a[2])>>, srv, res)

---------------------------------------------------------------------------
(* Signatures: each parameter's default, or Required. *)

Required == [t |-> "required"]

Signature(op) ==
    CASE op \in {"get_version", "close_application", "reset_all"} -> <<>>
      [] op \in {"switch_to_panel", "save_to_h5_file", "open_object"} ->
            <<Required>>
      [] op = "open_h5_files" -> <<PyNone, PyNone, PyNone>>
      [] op = "import_h5_file" -> <<Required, PyNone>>
      [] op = "get_sel_object_uuids" -> <<PyBool(FALSE)>>
      [] op = "select_objects" -> <<Required, PyNone, PyNone>>
      [] op = "select_groups" -> <<Required, PyNone>>
      [] op = "delete_metadata" -> <<PyBool(TRUE)>>
      [] op \in {"get_object_titles", "get_object_uuids"} -> <<PyNone>>
      [] op = "add_label_with_title" -> <<PyNone, PyNone>>
      [] op = "add_signal" ->
            <<Required, Required, Required, PyNone, PyNone, PyNone, PyNone>>
      [] op = "add_image" ->
            <<Required, Required, PyNone, PyNone, PyNone, PyNone, PyNone,
              PyNone>>
      [] op = "calc" -> <<Required, PyNone>>

NRequired(op) ==
    Cardinality({k \in 1..Len(Signature(op)) : Signature(op)[k] = Required})

(* Python's binding of positional arguments to parameters. *)
Bind(sig, args) ==
    [k \in 1..Len(sig) |-> IF k <= Len(args) THEN args[k] ELSE sig[k]]

(* The methods the claims name, and what the attribute lookup finds. *)
PassThroughOps ==
    {"get_version", "close_application", "switch_to_panel", "reset_all",
     "save_to_h5_file", "open_h5_files", "import_h5_file", "open_object",
     "get_sel_object_uuids", "select_objects", "select_groups",
     "delete_metadata", "get_object_titles", "get_object_uuids",
     "add_label_with_title"}
ControlOps == PassThroughOps \cup {"add_signal", "add_image"}
Method(op, c, a, srv, res) ==
    CASE op = "get_version" -> get_version(c, a, srv, res)
      [] op = "close_application" -> close_application(c, a, srv, res)
      [] op = "switch_to_panel" -> switch_to_panel(c, a, srv, res)
      [] op = "reset_all" -> reset_all(c, a, srv, res)
      [] op = "save_to_h5_file" -> save_to_h5_file(c, a, srv, res)
      [] op = "open_h5_files" -> open_h5_files(c, a, srv, res)
      [] op = "import_h5_file" -> import_h5_file(c, a, srv, res)
      [] op = "open_object" -> open_object(c, a, srv, res)
      [] op = "get_sel_object_uuids" -> get_sel_object_uuids(c, a, srv, res)
      [] op = "select_objects" -> select_objects(c, a, srv, res)
      [] op = "select_groups" -> select_groups(c, a, srv, res)
      [] op = "delete_metadata" -> delete_metadata(c, a, srv, res)
      [] op = "get_object_titles" -> get_object_titles(c, a, srv, res)
      [] op = "get_object_uuids" -> get_object_uuids(c, a, srv, res)
      [] op = "add_label_with_title" -> add_label_with_title(c, a, srv, res)
      [] op = "add_signal" -> add_signal(c, a, srv, res)
      [] op = "add_image" -> add_image(c, a, srv, res)
      [] op = "calc" -> calc(c, a, srv, res)

(* The caller's arguments: the first k parameters, each position with a     *)
(* value of its own (or None everywhere when salt = 0).                     *)
ArgVal(salt, k) == IF salt = 0 THEN PyNone ELSE PyInt(10 * salt + k)

PlainArgs(op) ==
    {[k \in 1..n |-> ArgVal(salt, k)] :
        n \in NRequired(op)..Len(Signature(op)), salt \in 0..MaxSalt}

SignalArgs ==
    {[v EXCEPT ![2] = x, ![3] = y] :
        v \in PlainArgs("add_signal"), x \in SignalArrays, y \in SignalArrays}

ImageArgs ==
    {[v EXCEPT ![2] = z] : v \in PlainArgs("add_image"), z \in ImageArrays}

ComputePrefix == <<"c", "o", "m", "p", "u", "t", "e", "_">>

(* Attribute names no class defines. *)
UndefinedNames ==
    {ComputePrefix \o <<"f", "f", "t">>, ComputePrefix,
     <<"c", "o", "m", "p", "u", "t", "e">>,
     <<"x">> \o ComputePrefix \o <<"y">>,
     <<"C", "o", "m", "p", "u", "t", "e", "_", "x">>, <<>>}

Params ==
    {PyNone,
     DataSet(<<"m">>, <<"P">>, <<>>),
     DataSet(<<"m", ".", "n">>, <<"Q">>, << <<(<<"a">>), 1>>, <<(<<"b">>), -20>> >>)}

CalcArgs ==
    {<<PyStr(n)>> : n \in {ComputePrefix \o <<"f", "f", "t">>, <<"x">>}}
        \cup {<<PyStr(n), q>> :
                 n \in {ComputePrefix \o <<"f", "f", "t">>, <<"x">>}, q \in Params}

(* str.startswith *)
StartsWith(s, prefix) ==
    Len(s) >= Len(prefix) /\ SubSeq(s, 1, Len(prefix)) = prefix

Function(name) == [t |-> "function", name |-> name]

(* SimpleAbstractCDLControl.__getattr__: reached for undefined names only. *)
getattr(name) ==
    IF StartsWith(name, ComputePrefix)
    THEN Return(Function(name))
    ELSE Raise("AttributeError", "DataLab has no compute function")

compute_func_unprefixed(f, c, param, srv, res) ==
    calc(c, <<PyStr(SubSeq(f.name, Len(ComputePrefix) + 1, Len(f.name))), param>>,
         srv, res)

(* The closure __getattr__ returns: return self.calc(name, param) *)
compute_func(f, c, param, srv, res) ==
    calc(c, <<PyStr(f.name), param>>, srv, res)

Finish(r, srv, res) ==
    /\ result' = r.out
    /\ lastcall' = IF r.calls = <<>> THEN NoCall ELSE r.calls[Len(r.calls)]
    /\ hist' = [Hist0 EXCEPT !.ncalls = Len(r.calls),
                             !.srv = IF r.calls = <<>> THEN "" ELSE srv,
                             !.res = IF r.calls = <<>> THEN PyNone ELSE res,
                             !.step = "method"]
    /\ loc' = Loc0
    /\ pc' = "done"
    /\ UNCHANGED <<environ, port, cdl, npy>>

(* proxy.<op>(...) for a method the classes define. *)
call(op, args, srv, res) ==
    /\ Begin(op, args)
    /\ Finish(Method(op, cdl, Bind(Signature(op), args), srv, res), srv, res)

(* proxy.<name>, for a name no class defines: no request is made. *)
lookup(name) ==
    /\ pc = "idle"
    /\ inv' = [op |-> "__getattr__", args |-> <<PyStr(name)>>]
    /\ old' = [port |-> port, cdl |-> cdl]
    /\ held' = IF getattr(name).kind = "return" THEN getattr(name).val ELSE PyNone
    /\ Finish([out |-> getattr(name), calls |-> <<>>], "", PyNone)

(* f(param) or f(), f the function the last lookup returned. *)
call_compute(args, srv, res) ==
    /\ pc = "idle"
    /\ held # PyNone
    /\ inv' = [op |-> "compute_func", args |-> args]
    /\ old' = [port |-> port, cdl |-> cdl]
    /\ held' = held
    /\ Finish(compute_func(held, cdl, Bind(<<PyNone>>, args)[1], srv, res),
              srv, res)

Npy0 == [stage |-> "off"]

(* The codec on its own: an array, np.save of it, np.load of that. *)
InitArray ==
    /\ environ = PyNone
    /\ port = PyNone
    /\ cdl = PyNone
    /\ pc = "idle"
    /\ inv = Inv0
    /\ loc = Loc0
    /\ hist = Hist0
    /\ lastcall = NoCall
    /\ result = Pending
    /\ old = [port |-> PyNone, cdl |-> PyNone]
    /\ held = PyNone
    /\ npy \in {[stage |-> "array", arr |-> a] : a \in Arrays}

save_array ==
    /\ npy.stage = "array"
    /\ npy' = [stage |-> "binary", arr |-> npy.arr,
               bin |-> array_to_rpcbinary(npy.arr)]
    /\ UNCHANGED <<environ, port, cdl, pc, inv, loc, hist, lastcall, result,
                   old, held>>

load_array ==
    /\ npy.stage = "binary"
    /\ npy' = [stage |-> "loaded", arr |-> npy.arr, bin |-> npy.bin,
               back |-> rpcbinary_to_array(npy.bin)]
    /\ UNCHANGED <<environ, port, cdl, pc, inv, loc, hist, lastcall, result,
                   old, held>>

NextArray == save_array \/ load_array

SpecArray == InitArray /\ [][NextArray]_vars

Init ==
    /\ environ \in EnvValues
    /\ port = PyNone
    /\ cdl = PyNone
    /\ pc = "idle"
    /\ inv = Inv0
    /\ loc = Loc0
    /\ hist = Hist0
    /\ lastcall = NoCall
    /\ result = Pending
    /\ old = [port |-> PyNone, cdl |-> PyNone]
    /\ held = PyNone
    /\ npy = Npy0

Next ==
    \/ \E p \in PortArgs, t \in TimeoutArgs, r \in RetriesArgs : connect(p, t, r)
    \/ \E cfg \in CfgStates, srv \in SrvStates : connect_attempt(cfg, srv)
    \/ connect_sleep
    \/ \E v \in EnvValues : setenv(v)
    \/ disconnect
    \/ resume
    \/ \E op \in PassThroughOps \cup {"calc"}, srv \in SrvStates, res \in RemoteResults :
          \E args \in (IF op = "calc" THEN CalcArgs ELSE PlainArgs(op)) :
             call(op, args, srv, res)
    \/ \E args \in SignalArgs, srv \in SrvStates, res \in RemoteResults :
          call("add_signal", args, srv, res)
    \/ \E args \in ImageArgs, srv \in SrvStates, res \in RemoteResults :
          call("add_image", args, srv, res)
    \/ \E name \in UndefinedNames : lookup(name)
    \/ \E args \in {<<>>} \cup {<<q>> : q \in Params},
          srv \in SrvStates, res \in RemoteResults :
          call_compute(args, srv, res)

Spec == Init /\ [][Next]_vars

---------------------------------------------------------------------------
(* The claims.  They are stated over the caller's arguments (inv.args) and  *)
(* what the invocation read and did (hist), not over connect()'s locals.    *)

InConnect == inv.op = "connect"
ArgPort == inv.args[1]
ArgTimeout == IF inv.args[2] = PyNone THEN 5 ELSE inv.args[2].i
ArgRetries == IF inv.args[3] = PyNone THEN 10 ELSE inv.args[3].i
ValidConnect == InConnect /\ ArgTimeout >= 0 /\ ArgRetries >= 1
GaveUp == Raise("CDLConnectionError", "Unable to connect to DataLab")
AllFailed == hist.attempts >= 1 /\ hist.failed = hist.attempts

(* The integer CDL_XMLRPCPORT holds, PyNone when unset or not an integer. *)
EnvPort ==
    IF environ # PyNone /\ int_str(environ.s).ok
    THEN PyInt(int_str(environ.s).val)
    ELSE PyNone

(* C1: a connect(port, timeout, retries) with timeout >= 0 and retries >= 1 *)
(* (5 and 10 when None) never makes more than `retries` attempts, does not  *)
(* end while every attempt so far has failed with CDLConnectionError and    *)
(* fewer than `retries` were made, and when all `retries` attempts failed   *)
(* so it ends by raising CDLConnectionError("Unable to connect to DataLab");*)
(* it raises that error in no other case.                                   *)
C1_RetryThenGiveUp ==
    ValidConnect =>
        /\ hist.attempts <= ArgRetries
        /\ (pc = "done" /\ AllFailed) =>
               (hist.attempts = ArgRetries /\ result = GaveUp)
        /\ (pc = "done" /\ hist.attempts = 0) => FALSE
        /\ result = GaveUp => (AllFailed /\ hist.attempts = ArgRetries)
        /\ pc # "done" => result = Pending

C1_Witness ==
    /\ ValidConnect
    /\ pc = "done"
    /\ inv.args[3] = PyNone
    /\ hist.attempts = 10
    /\ hist.failed = 10
    /\ result = GaveUp

(* C2: the attempt of connect() whose get_version() succeeds is the last    *)
(* step of the call: connect has returned None, no sleep follows it (every  *)
(* sleep followed a failed attempt), self.port is the port that attempt     *)
(* asked with, and self._cdl is the proxy of http://127.0.0.1:<that port>.  *)
C2_SuccessEndsLoop ==
    (InConnect /\ hist.attempts >= 1 /\ hist.srv = "up") =>
        /\ pc = "done"
        /\ result = Return(PyNone)
        /\ hist.step = "attempt"
        /\ hist.attempts = hist.failed + 1
        /\ hist.sleeps = hist.failed
        /\ cdl = ServerProxy(UriPrefix \o FormatValue(port))
        /\ lastcall = [method |-> "get_version", args |-> <<>>, uri |-> cdl.uri]
        /\ port = (IF ArgPort # PyNone THEN ArgPort
                   ELSE IF EnvPort # PyNone THEN EnvPort
                   ELSE PyStr(hist.cfg.value))

C2_Witness ==
    /\ InConnect
    /\ pc = "done"
    /\ hist.srv = "up"
    /\ hist.failed = 2
    /\ hist.sleeps = 2
    /\ result = Return(PyNone)
    /\ port = PyStr(<<"7">>)
    /\ old.port = PyNone

(* C3: connect() with timeout < 0 or retries < 1 ends at once with a        *)
(* ValueError: no attempt, no proxy, no request, no sleep, and self.port    *)
(* and self._cdl as they were; and it raises ValueError in no other case.   *)
C3_ValueError ==
    InConnect =>
        /\ (ArgTimeout < 0 \/ ArgRetries < 1) =>
              /\ pc = "done"
              /\ result.kind = "raise"
              /\ result.exc = "ValueError"
              /\ hist.attempts = 0
              /\ hist.nproxies = 0
              /\ hist.ncalls = 0
              /\ hist.sleeps = 0
              /\ port = old.port
              /\ cdl = old.cdl
        /\ result.exc = "ValueError" => (ArgTimeout < 0 \/ ArgRetries < 1)

C3_Witness ==
    /\ InConnect
    /\ pc = "done"
    /\ inv.args[2] = PyInt(1)
    /\ inv.args[3] = PyInt(0)
    /\ result.exc = "ValueError"
    /\ old.cdl # PyNone
    /\ cdl = old.cdl

(* C4: the port of an attempt is the `port` argument when it is not None,   *)
(* else the integer in CDL_XMLRPCPORT when there is one, else the           *)
(* rpc_server_port entry of DataLab.ini; the file is consulted exactly when *)
(* the two earlier sources yield None.                                      *)
C4_PortPrecedence ==
    (InConnect /\ hist.attempts >= 1) =>
        /\ ArgPort # PyNone => (port = ArgPort /\ hist.cfg = NotRead)
        /\ (ArgPort = PyNone /\ EnvPort # PyNone) =>
               (port = EnvPort /\ hist.cfg = NotRead)
        /\ (ArgPort = PyNone /\ EnvPort = PyNone) =>
               /\ hist.cfg # NotRead
               /\ hist.cfgreads = hist.attempts
               /\ hist.cfg.kind = "entry" => port = PyStr(hist.cfg.value)
        /\ hist.cfg # NotRead => (ArgPort = PyNone /\ EnvPort = PyNone)
        /\ (hist.step = "attempt" /\ hist.cfg.kind \in {"notread", "entry"}) =>
               (hist.nproxies >= 1 /\ cdl = ServerProxy(UriPrefix \o FormatValue(port)))

C4_Witness ==
    /\ InConnect
    /\ hist.step = "attempt"
    /\ ArgPort = PyNone
    /\ environ = PyStr(<<"x">>)
    /\ hist.cfg.kind = "entry"
    /\ port = PyStr(<<"7">>)
    /\ old.port = PyInt(9)

ReturningOps ==
    {"get_version", "get_sel_object_uuids", "get_object_titles",
     "get_object_uuids", "add_signal", "add_image"}

(* The parameters a control operation runs with: the caller's arguments,    *)
(* then the defaults of the parameters the caller left out.                 *)
BoundArgs == Bind(Signature(inv.op), inv.args)

(* C6: a control operation invoked on a connected proxy issues exactly one  *)
(* request, through self._cdl, to the remote method of its own name, with   *)
(* its parameters in their order (an array as the Binary that decodes to    *)
(* it); it returns the remote result if it is an operation that returns a   *)
(* value, None otherwise, and raises what the request raised; self.port and *)
(* self._cdl stay as they were.                                             *)
C6_PassThrough ==
    (inv.op \in ControlOps /\ pc = "done" /\ old.cdl # PyNone) =>
        /\ hist.ncalls = 1
        /\ lastcall.method = inv.op
        /\ lastcall.uri = old.cdl.uri
        /\ Len(lastcall.args) = Len(BoundArgs)
        /\ \A k \in 1..Len(BoundArgs) :
              IF BoundArgs[k].t = "ndarray"
              THEN /\ lastcall.args[k].t = "Binary"
                   /\ SameArray(rpcbinary_to_array(lastcall.args[k]), BoundArgs[k])
              ELSE lastcall.args[k] = BoundArgs[k]
        /\ port = old.port
        /\ cdl = old.cdl
        /\ hist.srv = "up" =>
              result = Return(IF inv.op \in ReturningOps THEN hist.res ELSE PyNone)
        /\ hist.srv # "up" => result.kind = "raise"

C6_Witness ==
    /\ inv.op = "add_signal"
    /\ pc = "done"
    /\ old.cdl # PyNone
    /\ Len(inv.args) = 7
    /\ inv.args[4] = PyInt(14)
    /\ inv.args[2] # inv.args[3]
    /\ result = Return(PyBool(TRUE))

(* C7: looking up a name no class defines makes no request; if the name     *)
(* starts with "compute_" the lookup returns a function bound to that name, *)
(* otherwise it raises AttributeError.  Calling the function with a         *)
(* parameter (None when left out) does what calc(name, param) does: the     *)
(* same request, the same outcome.                                          *)
C7_ComputeDispatch ==
    /\ (inv.op = "__getattr__" /\ pc = "done") =>
          LET name == inv.args[1].s
          IN  /\ hist.ncalls = 0
              /\ lastcall = NoCall
              /\ IF Len(name) >= 8
                    /\ SubSeq(name, 1, 8) = <<"c", "o", "m", "p", "u", "t", "e", "_">>
                 THEN result = Return(Function(name)) /\ held = Function(name)
                 ELSE result.kind = "raise" /\ result.exc = "AttributeError"
                         /\ held = PyNone
    /\ (inv.op = "compute_func" /\ pc = "done") =>
          LET param == IF inv.args = <<>> THEN PyNone ELSE inv.args[1]
              direct == calc(old.cdl, <<PyStr(held.name), param>>,
                             hist.srv, hist.res)
          IN  /\ result = direct.out
              /\ hist.ncalls = Len(direct.calls)
              /\ lastcall = (IF direct.calls = <<>> THEN NoCall
                             ELSE direct.calls[1])
              /\ old.cdl # PyNone =>
                    /\ lastcall.method = "calc"
                    /\ lastcall.args[1] = PyStr(held.name)
                    /\ Len(lastcall.args) = (IF param = PyNone THEN 1 ELSE 2)

C7_Witness ==
    /\ inv.op = "compute_func"
    /\ pc = "done"
    /\ held = Function(ComputePrefix \o <<"f", "f", "t">>)
    /\ Len(inv.args) = 1
    /\ inv.args[1] # PyNone
    /\ result = Return(PyStr(<<"r">>))

(* C8: np.load of np.save of an array (integer dtypes of one and two bytes, *)
(* either byte order, up to two axes, either memory layout) has the         *)
(* array's shape, its dtype and its elements.                               *)
C8_RoundTrip ==
    npy.stage = "loaded" =>
        /\ npy.back.shape = npy.arr.shape
        /\ npy.back.dtype = npy.arr.dtype
        /\ npy.back.data = npy.arr.data

C8_Witness ==
    /\ npy.stage = "loaded"
    /\ npy.arr.dtype = ">i2"
    /\ npy.arr.shape = <<2, 2>>
    /\ npy.arr.order = "F"
    /\ npy.bin.data.header.fortran_order
    /\ npy.arr.data[3] = -32768
    /\ npy.back.data = npy.arr.data

(* C9: in a connect() called with port None, while CDL_XMLRPCPORT holds no  *)
(* integer and DataLab.ini has had no [main] rpc_server_port entry at any   *)
(* attempt so far, every attempt has failed with CDLConnectionError         *)
(* ("DataLab has not yet been executed") with no proxy created and no       *)
(* request made, each failure is followed by a sleep, self.port and         *)
(* self._cdl are as they were, and the call ends only after `retries`       *)
(* attempts, raising CDLConnectionError("Unable to connect to DataLab").    *)
C9_NoConfigRetried ==
    (ValidConnect /\ ArgPort = PyNone /\ EnvPort = PyNone /\ hist.allmissing) =>
        /\ hist.nproxies = 0
        /\ hist.ncalls = 0
        /\ port = old.port
        /\ cdl = old.cdl
        /\ hist.failed = hist.attempts
        /\ hist.cfgreads = hist.attempts
        /\ hist.attempts >= 1 => hist.lasterr = "DataLab has not yet been executed"
        /\ hist.sleeps = (IF pc = "sleep" THEN hist.failed - 1 ELSE hist.failed)
        /\ pc = "done" => (result = GaveUp /\ hist.attempts = ArgRetries)
        /\ pc # "done" => result = Pending

C9_Witness ==
    /\ ValidConnect
    /\ ArgPort = PyNone
    /\ EnvPort = PyNone
    /\ environ # PyNone
    /\ hist.allmissing
    /\ hist.cfg.kind = "nooption"
    /\ pc = "done"
    /\ hist.attempts = 2
    /\ result = GaveUp
    /\ old.cdl # PyNone
    /\ cdl = old.cdl

(* C10, as stated: an attempt whose get_version() raises                    *)
(* ConnectionRefusedError becomes CDLConnectionError("DataLab is currently  *)
(* not running") and is followed by a sleep and the next attempt; any other *)
(* exception of get_version() leaves connect() at once, unconverted, with   *)
(* no sleep and no further attempt.                                         *)
C10_Original ==
    InConnect =>
        /\ (hist.step = "attempt" /\ hist.gvexc = "ConnectionRefusedError") =>
              /\ hist.lasterr = "DataLab is currently not running"
              /\ pc = "sleep"
              /\ result = Pending
        /\ (hist.step = "sleep" /\ hist.gvexc = "ConnectionRefusedError") =>
              /\ pc = "try"
              /\ result = Pending
        /\ hist.gvexc \notin {"", "ConnectionRefusedError"} =>
              /\ pc = "done"
              /\ hist.step = "attempt"
              /\ result = Raise(hist.gvexc, "")
              /\ result.exc # "CDLConnectionError"
              /\ hist.sleeps = hist.failed
              /\ hist.failed = hist.attempts - 1

(* C10, amended: as above, but the sleep that follows a refused attempt is  *)
(* followed by the next attempt only if fewer than `retries` attempts have  *)
(* been made; after the last of them connect() raises                       *)
(* CDLConnectionError("Unable to connect to DataLab").                      *)
C10_RefusedIsRetried ==
    InConnect =>
        /\ (hist.step = "attempt" /\ hist.gvexc = "ConnectionRefusedError") =>
              /\ hist.lasterr = "DataLab is currently not running"
              /\ pc = "sleep"
              /\ result = Pending
        /\ (hist.step = "sleep" /\ hist.gvexc = "ConnectionRefusedError") =>
              IF hist.attempts < ArgRetries
              THEN pc = "try" /\ result = Pending
              ELSE pc = "done" /\ result = GaveUp
        /\ hist.gvexc \notin {"", "ConnectionRefusedError"} =>
              /\ pc = "done"
              /\ hist.step = "attempt"
              /\ result = Raise(hist.gvexc, "")
              /\ result.exc # "CDLConnectionError"
              /\ hist.sleeps = hist.failed
              /\ hist.failed = hist.attempts - 1

C10_Witness ==
    /\ InConnect
    /\ hist.step = "sleep"
    /\ hist.gvexc = "ConnectionRefusedError"
    /\ hist.lasterr = "DataLab is currently not running"
    /\ hist.attempts = 2
    /\ inv.args[3] = PyInt(2)
    /\ pc = "done"
    /\ result = GaveUp

(* C11: calc(name, param) on a connected proxy makes exactly one request,   *)
(* to the remote method calc through self._cdl, and returns its result (or  *)
(* raises what the request raised).  With param None (given or left out)    *)
(* the request carries the name only; with a DataSet it carries the name    *)
(* and a list of three strings: the module name of the parameter's class,   *)
(* the name of that class, the JSON text of the serialized parameter.       *)
C11_Calc ==
    (inv.op = "calc" /\ pc = "done" /\ old.cdl # PyNone) =>
        LET name == inv.args[1]
            param == IF Len(inv.args) >= 2 THEN inv.args[2] ELSE PyNone
        IN  /\ hist.ncalls = 1
            /\ lastcall.method = "calc"
            /\ lastcall.uri = old.cdl.uri
            /\ IF param = PyNone
               THEN lastcall.args = <<name>>
               ELSE /\ Len(lastcall.args) = 2
                    /\ lastcall.args[1] = name
                    /\ lastcall.args[2].t = "list"
                    /\ Len(lastcall.args[2].xs) = 3
                    /\ lastcall.args[2].xs[1] = PyStr(param.module)
                    /\ lastcall.args[2].xs[2] = PyStr(param.cls)
                    /\ lastcall.args[2].xs[3] = PyStr(get_json(param))
            /\ hist.srv = "up" => result = Return(hist.res)
            /\ hist.srv # "up" => result.kind = "raise"
            /\ port = old.port
            /\ cdl = old.cdl

C11_Witness ==
    /\ inv.op = "calc"
    /\ pc = "done"
    /\ old.cdl # PyNone
    /\ Len(inv.args) = 2
    /\ inv.args[2] # PyNone
    /\ inv.args[2].module = <<"m", ".", "n">>
    /\ hist.ncalls = 1
    /\ lastcall.args[2].xs[1] = PyStr(<<"m", ".", "n">>)
    /\ lastcall.args[2].xs[2] = PyStr(<<"Q">>)
    /\ lastcall.args[2].xs[3] =
          PyStr(<<"{", "\"", "a", "\"", ":", " ", "1", ",", " ",
                  "\"", "b", "\"", ":", " ", "-", "2", "0", "}">>)
    /\ result = Return(PyStr(<<"r">>))

====
